---- MODULE Spec2Model ----
(***************************************************************************)
(* Model of the KiCanvas base Viewer (src/viewers/base/viewer.ts): the     *)
(* pointer state machine for click / box selection, the multi-selection    *)
(* model with its legacy single-selection accessor, and the helpers of     *)
(* base/math and view-layers that the viewer calls; clipboard export       *)
(* (Viewer.on_copy) and the S-expression serializer (kicad/serializer.ts). *)
(***************************************************************************)
EXTENDS Integers, Sequences, FiniteSets, TLC

\* ------------------------------------------------------------------ bounds
\* Pointer events carry client coordinates: column 0 or one of the columns
\* 5..MaxX, and a row of 0..MaxY.
MaxX == 6
MaxY == 1
\* Programmatic select_items calls pass iterables of at most MaxItems nodes.
MaxItems == 2
\* Nodes are added to the selection one at a time up to MaxSelected nodes.
MaxSelected == 2
\* Lists handed to the serializer have at most MaxLen elements.
MaxLen == 4

\* ------------------------------------------------------- program constants
\* const DRAG_THRESHOLD = 5 in on_box_selection_move
DRAG_THRESHOLD_move == 5
\* const DRAG_THRESHOLD = 5 in on_mouse_up
DRAG_THRESHOLD_up == 5

\* ------------------------------------------------------------------ values
\* null for Vec2 | null and BBox | null fields
NULL == [null |-> TRUE]
\* the context of a BBox that has no owning node (bb.context undefined)
NO_CONTEXT == "undefined"

Vec2(px, py) == [x |-> px, y |-> py]

Min(a, b) == IF a < b THEN a ELSE b
Max(a, b) == IF a > b THEN a ELSE b

\* Vec2.sub(a, b).magnitude squared; magnitude = sqrt(x*x + y*y)
SqMagnitude(a, b) == (a.x - b.x) * (a.x - b.x) + (a.y - b.y) * (a.y - b.y)

\* magnitude > t, for integer coordinates and t >= 0 (sqrt is monotone)
MagnitudeGT(a, b, t) == SqMagnitude(a, b) > t * t

\* magnitude < t: the click test with the boundary on the wrong side
MagnitudeLT(a, b, t) == SqMagnitude(a, b) < t * t

\* magnitude <= t
MagnitudeLE(a, b, t) == SqMagnitude(a, b) <= t * t

\* ------------------------------------------------------------------- BBox
BBox(px, py, pw, ph, ctx) == [x |-> px, y |-> py, w |-> pw, h |-> ph, context |-> ctx]
x2(b) == b.x + b.w
y2(b) == b.y + b.h

\* BBox.from_corners(x1, y1, x2, y2): corners in any order, no context
from_corners(ax, ay, bx, by) ==
    BBox(Min(ax, bx), Min(ay, by), Max(ax, bx) - Min(ax, bx), Max(ay, by) - Min(ay, by), NO_CONTEXT)

\* BBox.contains_point(v): borders included
contains_point(b, v) == v.x >= b.x /\ v.x <= x2(b) /\ v.y >= b.y /\ v.y <= y2(b)

\* BBox.contains(other): this fully encloses other
contains(b, other) ==
    /\ contains_point(b, Vec2(other.x, other.y))
    /\ contains_point(b, Vec2(x2(other), y2(other)))

\* BBox.intersects(other)
intersects(b, other) ==
    ~(x2(b) < other.x \/ b.x > x2(other) \/ y2(b) < other.y \/ b.y > y2(other))

RECURSIVE combine_from(_, _, _)
combine_from(bboxes, i, acc) ==
    IF i > Len(bboxes) THEN acc
    ELSE LET b  == bboxes[i]
             nx == Min(acc.x, b.x)
             ny == Min(acc.y, b.y)
             mx == Max(x2(acc), x2(b))
             my == Max(y2(acc), y2(b))
         IN  combine_from(bboxes, i + 1, BBox(nx, ny, mx - nx, my - ny, NO_CONTEXT))

\* BBox.combine(bboxes): the smallest box around all of them, no context
combine(bboxes) ==
    combine_from(bboxes, 2,
                 BBox(bboxes[1].x, bboxes[1].y, bboxes[1].w, bboxes[1].h, NO_CONTEXT))

\* ------------------------------------------------------------- layer set
Nodes == {"n1", "n2", "n3", "n4", "n5"}

\* ViewLayerSet contents after paint: every layer's bbox index maps a node to
\* a box whose context is that node.  Layers are listed in in_order() order.
layers == <<
    [name |-> "A", visible |-> TRUE, interactive |-> TRUE,
     bboxes |-> << [item |-> "n1", bbox |-> BBox(-1, 0, 1, 0, "n1")],
                   [item |-> "n2", bbox |-> BBox(-1, 0, 5, 0, "n2")],
                   [item |-> "n5", bbox |-> BBox(6, 1, 0, 0, "n5")] >>],
    [name |-> "B", visible |-> TRUE, interactive |-> FALSE,
     bboxes |-> << [item |-> "n3", bbox |-> BBox(5, 0, 1, 0, "n3")] >>],
    [name |-> "C", visible |-> FALSE, interactive |-> TRUE,
     bboxes |-> << [item |-> "n4", bbox |-> BBox(4, 1, 0, 0, "n4")] >>],
    [name |-> "D", visible |-> TRUE, interactive |-> TRUE,
     bboxes |-> << >>]
>>

\* ViewLayerSet.in_order()
in_order == layers

\* ViewLayerSet.interactive_layers(): the layers tagged interactive
interactive_layers == SelectSeq(in_order, LAMBDA l : l.interactive)

RECURSIVE Flatten(_)
Flatten(ss) == IF ss = << >> THEN << >> ELSE Head(ss) \o Flatten(Tail(ss))

\* ViewLayerSet.query_point(p): the boxes containing p, interactive layers in
\* order, index order within a layer
query_point(p) ==
    Flatten([i \in 1..Len(interactive_layers) |->
        SelectSeq([j \in 1..Len(interactive_layers[i].bboxes) |->
                      interactive_layers[i].bboxes[j].bbox],
                  LAMBDA bb : contains_point(bb, p))])

\* -------------------------------------------------------------- variables
VARIABLES
    mouse_position,         \* Viewer.mouse_position (world)
    mouse_down_position,    \* #mouse_down_position
    box_selection_start,    \* #box_selection_start
    box_selection_end,      \* #box_selection_end
    is_box_selecting,       \* #is_box_selecting
    selected_items,         \* #selected_items, in Set insertion order
    selection_bbox,         \* #selection_bbox
    selected,               \* #selected (legacy single selection)
    last,                   \* history: the handler that ran last and how it resolved
    gesture,                \* history: facts about the press in progress
    document,               \* the loaded document: node -> what on_copy reads of it
    copy,                   \* the on_copy call in progress, suspended at an await
    ser,                    \* a serializer call: argument, text, text read back
    display,                \* deferred callbacks, the layers' render state, the last frame
    loaded                  \* Viewer.loaded, the waits on it, the load events dispatched

machine == <<mouse_down_position, box_selection_start, box_selection_end, is_box_selecting>>
selection == <<selected_items, selection_bbox, selected>>
vars == <<mouse_position, machine, selection, last, gesture, document, copy, ser, display,
          loaded>>

\* client coordinates carried by pointer events
Screen == {Vec2(px, py) : px \in {0} \cup (5..MaxX), py \in 0..MaxY}

\* viewport.camera: the world origin is drawn camera_pan pixels from the left
\* edge of the canvas
camera_pan == 1

\* camera.world_to_screen(p) and camera.screen_to_world(p)
world_to_screen(p) == Vec2(p.x + camera_pan, p.y)
screen_to_world(p) == Vec2(p.x - camera_pan, p.y)

Range(s) == {s[i] : i \in 1..Len(s)}

\* Set.add over an iterable: new members are appended, present ones stay put
RECURSIVE add_all(_, _)
add_all(set, items) ==
    IF items = << >> THEN set
    ELSE add_all(IF Head(items) \in Range(set) THEN set ELSE Append(set, Head(items)),
                 Tail(items))

\* the selection fields as one value
Sel(items, bbox, sel) == [selected_items |-> items, selection_bbox |-> bbox, selected |-> sel]
CurSel == Sel(selected_items, selection_bbox, selected)

\* Viewer._update_selection(bboxes)
update_selection(sel, bboxes) ==
    IF Len(bboxes) = 0 THEN Sel(sel.selected_items, NULL, NULL)
    ELSE IF Len(bboxes) = 1 THEN Sel(sel.selected_items, bboxes[1], bboxes[1])
    ELSE Sel(sel.selected_items, combine(bboxes), combine(bboxes))

\* the inner loops of select_items: for one item, the first matching entry of
\* every interactive layer
item_bboxes(item) ==
    Flatten([i \in 1..Len(interactive_layers) |->
        LET found == SelectSeq(interactive_layers[i].bboxes, LAMBDA e : e.item = item)
        IN  IF found = << >> THEN << >> ELSE << found[1].bbox >>])

\* select_items that clears the set whatever additive is
select_items_replace(sel, items, additive) ==
    update_selection(Sel(add_all(<< >>, items), sel.selection_bbox, sel.selected),
                     Flatten([i \in 1..Len(items) |-> item_bboxes(items[i])]))

\* Viewer.select_items(items, additive)
select_items(sel, items, additive) ==
    LET base   == IF additive THEN sel.selected_items ELSE << >>
        bboxes == Flatten([i \in 1..Len(items) |-> item_bboxes(items[i])])
    IN  update_selection(Sel(add_all(base, items), sel.selection_bbox, sel.selected), bboxes)

\* Viewer.select_item(item, additive)
select_item(sel, item, additive) == select_items(sel, << item >>, additive)

\* Viewer._set_selected(bb), reached through select() and the selected setter
set_selected(sel, bb) ==
    IF bb = NULL THEN Sel(<< >>, NULL, NULL)
    ELSE IF bb.context # NO_CONTEXT THEN Sel(<< bb.context >>, bb, bb)
    ELSE Sel(sel.selected_items, sel.selection_bbox, bb)

\* Viewer.select(item)
select(sel, item) == set_selected(sel, item)

\* on_pick taking the last hit instead of the first
on_pick_last(sel, items) == select(sel, IF items = << >> THEN NULL ELSE items[Len(items)])

\* Viewer.on_pick(mouse, items): the first hit, or null
on_pick(sel, items) == select(sel, IF items = << >> THEN NULL ELSE items[1])

\* clear_selection leaving the legacy single selection in place
clear_selection_set_only(sel) == Sel(<< >>, NULL, sel.selected)

\* Viewer.clear_selection()
clear_selection(sel) == Sel(<< >>, NULL, NULL)

\* ------------------------------------------------------- select events
\* the literal null handed to the event constructor
NULL_REF == "null"

\* the detail object of a KiCanvasSelectEvent
Detail(item, previous) == [item |-> item, previous |-> previous]

\* bb?.context
context_of(bb) == IF bb = NULL THEN NO_CONTEXT ELSE bb.context

\* the events _set_selected and _update_selection dispatch: one, built from
\* the legacy selection before (sel) and after (new) the update
select_events(sel, new) == << Detail(context_of(new.selected), context_of(sel.selected)) >>

\* the events clear_selection dispatches: one if the set was not empty
clear_selection_events(sel) ==
    IF Len(sel.selected_items) > 0 THEN << Detail(NULL_REF, NULL_REF) >> ELSE << >>

\* the walk restricted to interactive layers
box_layers_interactive == SelectSeq(interactive_layers, LAMBDA l : Len(l.bboxes) # 0)

\* the layers complete_box_selection walks
box_layers == SelectSeq(in_order, LAMBDA l : l.visible /\ Len(l.bboxes) # 0)

\* the test in containment mode
box_test_contains(selection_rect, bbox) == contains(selection_rect, bbox)

\* the test complete_box_selection applies to every indexed box
box_test(selection_rect, bbox) == contains(selection_rect, bbox) \/ intersects(selection_rect, bbox)

\* the items complete_box_selection collects, in Set insertion order
box_query(selection_rect) ==
    add_all(<< >>,
        Flatten([i \in 1..Len(box_layers) |->
            LET hit == SelectSeq(box_layers[i].bboxes,
                                 LAMBDA e : box_test(selection_rect, e.bbox))
            IN  [j \in 1..Len(hit) |-> hit[j].item]]))

\* complete_box_selection adding to the selection instead of replacing it
complete_box_selection_additive(sel, start, end) ==
    select_items(sel, box_query(from_corners(start.x, start.y, end.x, end.y)), TRUE)

\* Viewer.complete_box_selection(start, end)
complete_box_selection(sel, start, end) ==
    select_items(sel, box_query(from_corners(start.x, start.y, end.x, end.y)), FALSE)

\* ----------------------------------------------------------- S-expressions
\* Text is a sequence of one-character strings.
LF == "\n"
CR == "\r"
TAB == "\t"
DQ == "\""
BS == "\\"

\* An element of a List is a string, a number or a List (tokenizer.ts `List`),
\* told apart the way typeof and Array.isArray tell them apart.
Str(s) == [kind |-> "string", value |-> s]
Num(n) == [kind |-> "number", value |-> n]
List(v) == [kind |-> "list", value |-> v]

\* Array.prototype.join
RECURSIVE join(_, _)
join(parts, sep) ==
    IF parts = << >> THEN << >>
    ELSE IF Len(parts) = 1 THEN parts[1]
    ELSE parts[1] \o sep \o join(Tail(parts), sep)

\* String.prototype.replace(/ch/g, with)
RECURSIVE replace_all(_, _, _)
replace_all(str, ch, with) ==
    IF str = << >> THEN << >>
    ELSE (IF Head(str) = ch THEN with ELSE << Head(str) >>) \o replace_all(Tail(str), ch, with)

\* String.prototype.repeat
RECURSIVE repeat(_, _)
repeat(str, n) == IF n = 0 THEN << >> ELSE str \o repeat(str, n - 1)

Digits == << "0", "1", "2", "3", "4", "5", "6", "7", "8", "9" >>

RECURSIVE digits_of(_)
digits_of(n) ==
    IF n < 10 THEN << Digits[n + 1] >> ELSE digits_of(n \div 10) \o << Digits[(n % 10) + 1] >>

\* String(value) for an integer value
number_to_string(n) == IF n < 0 THEN << "-" >> \o digits_of(0 - n) ELSE digits_of(n)

\* escape_string with the double quotes escaped before the backslashes are
\* doubled
escape_string_quotes_first(str) ==
    replace_all(
        replace_all(
            replace_all(
                replace_all(
                    replace_all(str, DQ, << BS, DQ >>),
                    BS, << BS, BS >>),
                LF, << BS, "n" >>),
            CR, << BS, "r" >>),
        TAB, << BS, "t" >>)

\* serializer.ts escape_string(str): five replacements, in this order
escape_string(str) ==
    replace_all(
        replace_all(
            replace_all(
                replace_all(
                    replace_all(str, BS, << BS, BS >>),
                    DQ, << BS, DQ >>),
                LF, << BS, "n" >>),
            CR, << BS, "r" >>),
        TAB, << BS, "t" >>)

\* /[\s()"]/
special_chars == {" ", TAB, LF, CR, "(", ")", DQ}

\* the never_quote set of needs_quoting
never_quote == {
    <<"s", "y", "m", "b", "o", "l">>,
    <<"l", "i", "b", "_", "s", "y", "m", "b", "o", "l", "s">>,
    <<"p", "r", "o", "p", "e", "r", "t", "y">>,
    <<"a", "t">>,
    <<"e", "f", "f", "e", "c", "t", "s">>,
    <<"f", "o", "n", "t">>,
    <<"s", "i", "z", "e">>,
    <<"j", "u", "s", "t", "i", "f", "y">>,
    <<"f", "i", "l", "l">>,
    <<"s", "t", "r", "o", "k", "e">>,
    <<"t", "y", "p", "e">>,
    <<"w", "i", "d", "t", "h">>,
    <<"p", "t", "s">>,
    <<"x", "y">>,
    <<"p", "o", "l", "y", "l", "i", "n", "e">>,
    <<"p", "i", "n">>,
    <<"p", "i", "n", "_", "n", "u", "m", "b", "e", "r", "s">>,
    <<"p", "i", "n", "_", "n", "a", "m", "e", "s">>,
    <<"o", "f", "f", "s", "e", "t">>,
    <<"n", "u", "m", "b", "e", "r">>,
    <<"n", "a", "m", "e">>,
    <<"l", "e", "n", "g", "t", "h">>,
    <<"u", "u", "i", "d">>,
    <<"l", "i", "b", "_", "i", "d">>,
    <<"u", "n", "i", "t">>,
    <<"i", "n", "s", "t", "a", "n", "c", "e", "s">>,
    <<"p", "r", "o", "j", "e", "c", "t">>,
    <<"p", "a", "t", "h">>,
    <<"r", "e", "f", "e", "r", "e", "n", "c", "e">>,
    <<"v", "a", "l", "u", "e">>,
    <<"f", "o", "o", "t", "p", "r", "i", "n", "t">>,
    <<"i", "n", "_", "b", "o", "m">>,
    <<"o", "n", "_", "b", "o", "a", "r", "d">>,
    <<"d", "n", "p">>,
    <<"f", "i", "e", "l", "d", "s", "_", "a", "u", "t", "o", "p", "l", "a", "c", "e", "d">>,
    <<"e", "x", "c", "l", "u", "d", "e", "_", "f", "r", "o", "m", "_", "s", "i", "m">>,
    <<"e", "m", "b", "e", "d", "d", "e", "d", "_", "f", "o", "n", "t", "s">>,
    <<"w", "i", "r", "e">>,
    <<"j", "u", "n", "c", "t", "i", "o", "n">>,
    <<"n", "o", "_", "c", "o", "n", "n", "e", "c", "t">>,
    <<"b", "u", "s", "_", "e", "n", "t", "r", "y">>,
    <<"b", "u", "s">>,
    <<"l", "a", "b", "e", "l">>,
    <<"g", "l", "o", "b", "a", "l", "_", "l", "a", "b", "e", "l">>,
    <<"h", "i", "e", "r", "a", "r", "c", "h", "i", "c", "a", "l", "_", "l", "a", "b", "e", "l">>,
    <<"n", "e", "t", "c", "l", "a", "s", "s", "_", "f", "l", "a", "g">>,
    <<"t", "e", "x", "t", "_", "b", "o", "x">>,
    <<"d", "i", "a", "m", "e", "t", "e", "r">>,
    <<"c", "o", "l", "o", "r">>,
    <<"r", "e", "c", "t", "a", "n", "g", "l", "e">>,
    <<"c", "i", "r", "c", "l", "e">>,
    <<"a", "r", "c">>,
    <<"t", "e", "x", "t">>,
    <<"s", "t", "a", "r", "t">>,
    <<"e", "n", "d">>,
    <<"m", "i", "d">>,
    <<"c", "e", "n", "t", "e", "r">>,
    <<"r", "a", "d", "i", "u", "s">>,
    <<"a", "n", "g", "l", "e">>,
    <<"p", "o", "w", "e", "r">>,
    <<"p", "o", "w", "e", "r", "_", "i", "n">>,
    <<"p", "o", "w", "e", "r", "_", "o", "u", "t">>,
    <<"t", "h", "i", "c", "k", "n", "e", "s", "s">>,
    <<"b", "o", "l", "d">>,
    <<"i", "t", "a", "l", "i", "c">>,
    <<"y", "e", "s">>,
    <<"n", "o">>,
    <<"h", "i", "d", "e">>,
    <<"l", "e", "f", "t">>,
    <<"r", "i", "g", "h", "t">>,
    <<"t", "o", "p">>,
    <<"b", "o", "t", "t", "o", "m">>,
    <<"n", "o", "n", "e">>,
    <<"d", "e", "f", "a", "u", "l", "t">>,
    <<"s", "o", "l", "i", "d">>,
    <<"d", "a", "s", "h", "e", "d">>,
    <<"d", "o", "t", "t", "e", "d">>,
    <<"b", "a", "c", "k", "g", "r", "o", "u", "n", "d">>,
    <<"o", "u", "t", "l", "i", "n", "e">>,
    <<"f", "i", "l", "l", "e", "d">>,
    <<"p", "a", "s", "s", "i", "v", "e">>,
    <<"l", "i", "n", "e">>,
    <<"i", "n", "p", "u", "t">>,
    <<"o", "u", "t", "p", "u", "t">>,
    <<"b", "i", "d", "i", "r", "e", "c", "t", "i", "o", "n", "a", "l">>,
    <<"o", "p", "e", "n", "_", "c", "o", "l", "l", "e", "c", "t", "o", "r">>,
    <<"o", "p", "e", "n", "_", "e", "m", "i", "t", "t", "e", "r">>,
    <<"t", "r", "i", "_", "s", "t", "a", "t", "e">>,
    <<"u", "n", "s", "p", "e", "c", "i", "f", "i", "e", "d">>,
    <<"0">>,
    <<"9", "0">>,
    <<"1", "8", "0">>,
    <<"2", "7", "0">>
}

\* serializer.ts needs_quoting(str)
\* the test that quotes only what the tokenizer could not read back bare
needs_quoting_specials_only(str) ==
    \/ Len(str) = 0
    \/ \E i \in 1..Len(str) : str[i] \in special_chars

needs_quoting(str) ==
    IF Len(str) = 0 THEN TRUE
    ELSE IF \E i \in 1..Len(str) : str[i] \in special_chars THEN TRUE
    ELSE IF str \in never_quote THEN FALSE
    ELSE TRUE

\* serialize_atom that emits every string as it is
serialize_atom_bare(value) ==
    IF value.kind = "string" THEN value.value ELSE number_to_string(value.value)

\* serializer.ts serialize_atom(value)
serialize_atom(value) ==
    IF value.kind = "string"
    THEN IF needs_quoting(value.value)
         THEN << DQ >> \o escape_string(value.value) \o << DQ >>
         ELSE value.value
    ELSE number_to_string(value.value)

\* serializer.ts serialize_value(value)
RECURSIVE serialize_value(_)
serialize_value(value) ==
    IF value.kind = "list"
    THEN << "(" >>
            \o join([i \in 1..Len(value.value) |-> serialize_value(value.value[i])], << " " >>)
            \o << ")" >>
    ELSE IF value.kind = "string"
    THEN IF needs_quoting(value.value)
         THEN << DQ >> \o escape_string(value.value) \o << DQ >>
         ELSE value.value
    ELSE number_to_string(value.value)

\* value.length <= 3: the longest list kept on one line
SHORT_LIST == 3

RECURSIVE serialize_formatted(_, _)

\* the loop that puts every element on a line of its own
RECURSIVE formatted_tail_one_per_line(_, _, _)
formatted_tail_one_per_line(value, i, indent) ==
    IF i > Len(value) THEN << >>
    ELSE << LF >> \o repeat(<< " ", " " >>, indent) \o << " ", " " >>
            \o serialize_formatted(value[i], indent + 1)
            \o formatted_tail_one_per_line(value, i + 1, indent)

\* the loop of serialize_formatted over value[1..]: nested lists go on a new
\* line, indented; simple values stay on the line
RECURSIVE formatted_tail(_, _, _)
formatted_tail(value, i, indent) ==
    IF i > Len(value) THEN << >>
    ELSE (IF value[i].kind = "list"
          THEN << LF >> \o repeat(<< " ", " " >>, indent) \o << " ", " " >>
                    \o serialize_formatted(value[i], indent + 1)
          ELSE << " " >> \o serialize_atom(value[i]))
         \o formatted_tail(value, i + 1, indent)

\* serializer.ts serialize_formatted(value, indent)
serialize_formatted(value, indent) ==
    IF value.kind = "list"
    THEN LET v == value.value
         IN  IF Len(v) = 0 THEN << "(", ")" >>
             ELSE IF Len(v) <= SHORT_LIST /\ ~\E i \in 2..Len(v) : v[i].kind = "list"
             THEN << "(" >>
                    \o join([i \in 1..Len(v) |->
                                IF v[i].kind = "list"
                                THEN serialize_formatted(v[i], indent)
                                ELSE serialize_atom(v[i])], << " " >>)
                    \o << ")" >>
             ELSE << "(" >>
                    \o (IF v[1].kind = "list"
                        THEN serialize_formatted(v[1], indent)
                        ELSE serialize_atom(v[1]))
                    \o formatted_tail(v, 2, indent)
                    \o << ")" >>
    ELSE serialize_atom(value)

\* serializer.ts list_to_string(expr, formatted)
list_to_string(expr, formatted) ==
    IF formatted THEN serialize_formatted(expr, 0) ELSE serialize_value(expr)

\* -------------------------------------------------------------- tokenizer
\* kicad/tokenizer: parentheses are structural, a double-quoted run is a
\* string with backslash escapes, any other run of characters that are not
\* whitespace or parentheses is an atom, a number if it reads as one.
Whitespace == {" ", TAB, LF, CR}

\* the character a backslash escape stands for
unescape(c) == IF c = "n" THEN LF ELSE IF c = "r" THEN CR ELSE IF c = "t" THEN TAB ELSE c

\* the string that starts after an opening quote at i - 1
RECURSIVE read_string(_, _, _)
read_string(text, i, acc) ==
    IF i > Len(text) THEN [ok |-> FALSE, value |-> acc, next |-> i]
    ELSE IF text[i] = DQ THEN [ok |-> TRUE, value |-> acc, next |-> i + 1]
    ELSE IF text[i] = BS
    THEN IF i + 1 > Len(text) THEN [ok |-> FALSE, value |-> acc, next |-> i]
         ELSE read_string(text, i + 2, Append(acc, unescape(text[i + 1])))
    ELSE read_string(text, i + 1, Append(acc, text[i]))

\* the first position from i on whose character is in chars (inside) or is
\* not in chars (not inside), Len(text) + 1 if none
first_from(text, i, chars, inside) ==
    LET hits == {j \in i..Len(text) : (text[j] \in chars) = inside}
    IN  IF hits = {} THEN Len(text) + 1 ELSE CHOOSE j \in hits : \A k \in hits : j <= k

\* the position after the atom that starts at i
atom_end(text, i) == first_from(text, i, Whitespace \cup {"(", ")"}, TRUE)

\* an optional sign and one or more digits
is_number(run) ==
    LET body == IF run # << >> /\ Head(run) \in {"-", "+"} THEN Tail(run) ELSE run
    IN  body # << >> /\ \A i \in 1..Len(body) : body[i] \in Range(Digits)

RECURSIVE digits_value(_, _)
digits_value(body, acc) ==
    IF body = << >> THEN acc
    ELSE digits_value(Tail(body),
                      acc * 10 + (CHOOSE d \in 0..9 : Digits[d + 1] = Head(body)))

\* the value of a run that is_number
parse_number(run) ==
    IF Head(run) = "-" THEN 0 - digits_value(Tail(run), 0)
    ELSE IF Head(run) = "+" THEN digits_value(Tail(run), 0)
    ELSE digits_value(run, 0)

Token(kind, value) == [kind |-> kind, value |-> value]

\* the tokens of text from position i on; an unterminated string ends the
\* stream with an error token
RECURSIVE tokenize(_, _)
tokenize(text, from) ==
    LET i == first_from(text, from, Whitespace, FALSE)
    IN  IF i > Len(text) THEN << >>
        ELSE IF text[i] = "(" THEN << Token("open", << >>) >> \o tokenize(text, i + 1)
        ELSE IF text[i] = ")" THEN << Token("close", << >>) >> \o tokenize(text, i + 1)
        ELSE IF text[i] = DQ
        THEN LET str == read_string(text, i + 1, << >>)
             IN  IF str.ok THEN << Token("string", str.value) >> \o tokenize(text, str.next)
                 ELSE << Token("error", << >>) >>
        ELSE LET j   == atom_end(text, i)
                 run == SubSeq(text, i, j - 1)
             IN  << IF is_number(run) THEN Token("number", parse_number(run))
                    ELSE Token("atom", run) >> \o tokenize(text, j)

\* what a text that does not parse gives
ParseError == << Token("error", << >>) >>

\* the expressions the tokens from position i on add to the innermost open
\* list, the last element of stack; atoms and strings both become strings
RECURSIVE listify_from(_, _, _)
listify_from(tokens, i, stack) ==
    IF i > Len(tokens) THEN IF Len(stack) = 1 THEN stack[1] ELSE ParseError
    ELSE LET t == tokens[i]
             n == Len(stack)
         IN  IF t.kind = "open" THEN listify_from(tokens, i + 1, Append(stack, << >>))
             ELSE IF t.kind = "close"
             THEN IF n < 2 THEN ParseError
                  ELSE listify_from(tokens, i + 1,
                            [SubSeq(stack, 1, n - 1) EXCEPT
                                ![n - 1] = Append(stack[n - 1], List(stack[n]))])
             ELSE IF t.kind = "error" THEN ParseError
             ELSE listify_from(tokens, i + 1,
                        [stack EXCEPT
                            ![n] = Append(stack[n],
                                          IF t.kind = "number" THEN Num(t.value)
                                          ELSE Str(t.value))])

\* tokenizer listify(text): the top-level expressions of the text
listify(text) == listify_from(tokenize(text, 1), 1, << << >> >>)

\* ------------------------------------------------------ document nodes
\* item["_raw_expr"] / item.lib_symbol of a node that has none
Undefined == [kind |-> "undefined", value |-> << >>]

\* a document node as on_copy reads it: its retained expression, its lib_id
\* ("" when it has none) and the library definition node it resolves to
Node(raw_expr, lib_id, lib_symbol) ==
    [raw_expr |-> raw_expr, lib_id |-> lib_id, lib_symbol |-> lib_symbol]

\* const skip_types = ["rect", "rectangle", "image", "bitmap"]
skip_types == {
    << "r", "e", "c", "t" >>,
    << "r", "e", "c", "t", "a", "n", "g", "l", "e" >>,
    << "i", "m", "a", "g", "e" >>,
    << "b", "i", "t", "m", "a", "p" >>
}

\* the nodes a caller or a gesture can select: the indexed ones and n6, a
\* computed element that no layer indexes
CopyNodes == Nodes \cup {"n6"}

\* library definitions (symbol "R" (pin "1")) and (symbol "C"), parsed nodes
LibR == Node(List(<< Str(<< "s", "y", "m", "b", "o", "l" >>), Str(<< "R" >>),
                     List(<< Str(<< "p", "i", "n" >>), Str(<< "1" >>) >>) >>), "", Undefined)
LibC == Node(List(<< Str(<< "s", "y", "m", "b", "o", "l" >>), Str(<< "C" >>) >>), "", Undefined)

\* a placed symbol (symbol (lib_id id) (at x))
SymbolInstance(id, x, lib) ==
    Node(List(<< Str(<< "s", "y", "m", "b", "o", "l" >>),
                 List(<< Str(<< "l", "i", "b", "_", "i", "d" >>), Str(<< id >>) >>),
                 List(<< Str(<< "a", "t" >>), Num(x) >>) >>), id, lib)

\* A loaded document: n1 and n2 are instances of library symbol R, n5 of C,
\* n3 is (wire (pts 0 -5)), n4 is a drawing-sheet item (sheet (start 0)) and
\* n6 has no retained expression.
Document(sheet) ==
    [n \in CopyNodes |->
        IF n = "n1" THEN SymbolInstance("R", 1, LibR)
        ELSE IF n = "n2" THEN SymbolInstance("R", 2, LibR)
        ELSE IF n = "n3"
        THEN Node(List(<< Str(<< "w", "i", "r", "e" >>), List(<< Str(<< "p", "t", "s" >>), Num(0), Num(0 - 5) >>) >>),
                  "", Undefined)
        ELSE IF n = "n4"
        THEN Node(List(<< Str(sheet), List(<< Str(<< "s", "t", "a", "r", "t" >>), Num(0) >>) >>), "", Undefined)
        ELSE IF n = "n5" THEN SymbolInstance("C", 5, LibC)
        ELSE Node(Undefined, "", Undefined)]

\* ---------------------------------------------------------------- export
\* a console entry: console.log / console.warn / console.error
Console(level, msg, arg) == [level |-> level, msg |-> msg, arg |-> arg]

\* lib_symbols (a Map in insertion order), schematic_items and the console
\* output of the loop of on_copy; exported lists the nodes pushed
Collected(lib_symbols, schematic_items, exported, console) ==
    [lib_symbols |-> lib_symbols, schematic_items |-> schematic_items,
     exported |-> exported, console |-> console]

\* lib_symbols.has(lib_id)
has(lib_symbols, lib_id) == \E i \in 1..Len(lib_symbols) : lib_symbols[i].lib_id = lib_id

\* the loop that keeps rectangles and images
RECURSIVE collect_all_types(_, _, _)
collect_all_types(doc, items, acc) ==
    IF items = << >> THEN acc
    ELSE LET item == doc[Head(items)]
             expr == item.raw_expr
         IN  IF expr = Undefined THEN collect_all_types(doc, Tail(items), acc)
             ELSE IF expr.kind # "list" \/ Len(expr.value) = 0
             THEN collect_all_types(doc, Tail(items), acc)
             ELSE collect_all_types(doc, Tail(items),
                    [acc EXCEPT
                        !.lib_symbols =
                            IF expr.value[1] = Str(<< "s", "y", "m", "b", "o", "l" >>)
                                    /\ item.lib_id # "" /\ item.lib_symbol # Undefined
                                    /\ ~has(acc.lib_symbols, item.lib_id)
                            THEN Append(@, [lib_id |-> item.lib_id,
                                            text |-> list_to_string(item.lib_symbol.raw_expr, TRUE)])
                            ELSE @,
                        !.schematic_items = Append(@, list_to_string(expr, TRUE)),
                        !.exported = Append(@, Head(items))])

\* the loop with a single slot for library definitions instead of a Map
RECURSIVE collect_first_lib(_, _, _)
collect_first_lib(doc, items, acc) ==
    IF items = << >> THEN acc
    ELSE LET item == doc[Head(items)]
             expr == item.raw_expr
         IN  IF expr = Undefined THEN collect_first_lib(doc, Tail(items), acc)
             ELSE IF expr.kind # "list" \/ Len(expr.value) = 0
             THEN collect_first_lib(doc, Tail(items), acc)
             ELSE IF expr.value[1].kind = "string" /\ expr.value[1].value \in skip_types
             THEN collect_first_lib(doc, Tail(items), acc)
             ELSE collect_first_lib(doc, Tail(items),
                    [acc EXCEPT
                        !.lib_symbols =
                            IF item.lib_id # "" /\ item.lib_symbol # Undefined
                                    /\ Len(acc.lib_symbols) = 0
                            THEN << [lib_id |-> item.lib_id,
                                     text |-> list_to_string(item.lib_symbol.raw_expr, TRUE)] >>
                            ELSE @,
                        !.schematic_items = Append(@, list_to_string(expr, TRUE)),
                        !.exported = Append(@, Head(items))])

\* Viewer.on_copy: the loop over #selected_items
RECURSIVE collect(_, _, _)
collect(doc, items, acc) ==
    IF items = << >> THEN acc
    ELSE LET item == doc[Head(items)]
             expr == item.raw_expr
         IN  IF expr = Undefined THEN collect(doc, Tail(items), acc)
             ELSE IF expr.kind # "list" \/ Len(expr.value) = 0
             THEN collect(doc, Tail(items), acc)
             ELSE LET item_type  == expr.value[1]
                      serialized == list_to_string(expr, TRUE)
                  IN  IF item_type.kind = "string" /\ item_type.value \in skip_types
                      THEN collect(doc, Tail(items),
                                [acc EXCEPT !.console =
                                    Append(@, Console("log", "Skipping", item_type.value))])
                      ELSE IF item_type = Str(<< "s", "y", "m", "b", "o", "l" >>)
                                /\ item.lib_id # "" /\ item.lib_symbol # Undefined
                      THEN collect(doc, Tail(items),
                                [acc EXCEPT
                                    !.lib_symbols =
                                        IF ~has(acc.lib_symbols, item.lib_id)
                                                /\ item.lib_symbol.raw_expr # Undefined
                                        THEN Append(@, [lib_id |-> item.lib_id,
                                                        text |-> list_to_string(
                                                            item.lib_symbol.raw_expr, TRUE)])
                                        ELSE @,
                                    !.schematic_items = Append(@, serialized),
                                    !.exported = Append(@, Head(items))])
                      ELSE collect(doc, Tail(items),
                                [acc EXCEPT !.schematic_items = Append(@, serialized),
                                            !.exported = Append(@, Head(items))])

\* "(lib_symbols\n" and "\n)\n\n"
LIB_SYMBOLS_OPEN == << "(", "l", "i", "b", "_", "s", "y", "m", "b", "o", "l", "s", LF >>
LIB_SYMBOLS_CLOSE == << LF, ")", LF, LF >>

\* Viewer.on_copy: the clipboard text built from what the loop collected
clipboard_text(lib_symbols, schematic_items) ==
    (IF Len(lib_symbols) > 0
     THEN LIB_SYMBOLS_OPEN
            \o join([i \in 1..Len(lib_symbols) |->
                        << " ", " " >> \o replace_all(lib_symbols[i].text, LF, << LF, " ", " " >>)],
                    << LF >>)
            \o LIB_SYMBOLS_CLOSE
     ELSE << >>)
        \o join(schematic_items, << LF >>)

\* the test before the text is built, always passing
nothing_collected_never(got) == FALSE

\* Viewer.on_copy: lib_symbols.size === 0 && schematic_items.length === 0
nothing_collected(got) == Len(got.lib_symbols) = 0 /\ Len(got.schematic_items) = 0

\* the catch block that reports the failure and drops the text
write_console_no_text(ok, text) ==
    IF ok
    THEN << Console("log", "Copied", << >>),
            Console("log", "FULL CLIPBOARD CONTENT", text) >>
    ELSE << Console("error", "Failed to copy to clipboard", << >>) >>

\* Viewer.on_copy: what the try block logs once writeText resolved (ok), and
\* what the catch block logs when it was rejected or threw
write_console(ok, text) ==
    IF ok
    THEN << Console("log", "Copied", << >>),
            Console("log", "FULL CLIPBOARD CONTENT", text) >>
    ELSE << Console("error", "Failed to copy to clipboard", << >>),
            Console("log", "Copy this text manually", text) >>

\* ---------------------------------------------------------------- history
NoGesture == [pressed |-> "none", from_idle |-> FALSE, exceeded |-> FALSE]

\* what a step of on_copy produced: the text it built, the nodes and the
\* library ids it exported, whether it called clipboard.writeText, and what
\* it wrote to the console
Out(text, exported, lib_ids, wrote, console) ==
    [text |-> text, exported |-> exported, lib_ids |-> lib_ids, wrote |-> wrote,
     console |-> console]
NoOut == Out(<< >>, << >>, << >>, FALSE, << >>)

\* no on_copy call is suspended
CopyIdle == [pc |-> "idle", requested |-> << >>, text |-> << >>]

\* no serializer call is under way
SerIdle == [phase |-> "idle", expr |-> List(<< >>), formatted |-> FALSE,
            text |-> << >>, back |-> << >>]

\* what the last handler was, what it was given and how it resolved
Last(op, res) ==
    [op |-> op, res |-> res, pos |-> NULL, press |-> NULL, rect |-> NULL,
     selecting |-> FALSE, far |-> FALSE, before |-> << >>,
     items |-> << >>, additive |-> FALSE, gesture |-> NoGesture,
     was |-> NULL, events |-> << >>, repaints |-> 0, out |-> NoOut]

\* the record of a handler that worked on the selection: the set and the
\* legacy selection it found, the events it dispatched, and the overlay
\* repaints it scheduled with later() (one next to every dispatch)
Notified(l, sel, events) ==
    [l EXCEPT !.before = sel.selected_items, !.was = sel.selected,
              !.events = events, !.repaints = Len(events)]

Idle ==
    /\ mouse_down_position = NULL
    /\ box_selection_start = NULL
    /\ box_selection_end = NULL
    /\ is_box_selecting = FALSE

\* ------------------------------------------------------------ composition
\* depth and alpha are kept in hundredths: 0.01 is 1, 0.25 is 25, 1.0 is 100
DEPTH_START == 1
DEPTH_STEP == 1
DIM_ALPHA == 25

\* the callbacks waiting at any one time stay within MaxPending
MaxPending == 2

\* a compiled drawable: the primitives issued between start_layer and end_layer
Drawable(layer, prims) == [layer |-> layer, prims |-> prims]

\* a view layer as on_draw reads it; graphics is NULL when nothing is compiled
ViewLayer(name, visible, highlighted, opacity, graphics) ==
    [name |-> name, visible |-> visible, highlighted |-> highlighted,
     opacity |-> opacity, graphics |-> graphics]

\* the layer set after a paint: every layer of the set compiled, none highlighted
painted_view ==
    [list |-> [i \in 1..Len(layers) |->
                ViewLayer(layers[i].name, layers[i].visible, FALSE, 100,
                          Drawable(layers[i].name, << >>))]]

\* the deferred callbacks (later: paint_selected, requestAnimationFrame:
\* on_draw), the overlay layer's drawable, the layer set with its layers
\* listed in display order (NULL before the layer set exists), and what the
\* last animation frame did
Display(timers, frames, overlay, view) ==
    [timers |-> timers, frames |-> frames, overlay |-> overlay, view |-> view,
     composed |-> [on_draws |-> 0, calls |-> << >>]]

\* layers.in_display_order(): the layers, the overlay on top
in_display_order(d) == Append(d.view.list, ViewLayer("overlay", TRUE, FALSE, 100, d.overlay))

\* layers.is_any_layer_highlighted()
is_any_layer_highlighted(view) == \E i \in 1..Len(view) : view[i].highlighted

\* a call on the renderer or on a drawable
Call(op, layer, depth, alpha) == [op |-> op, layer |-> layer, depth |-> depth, alpha |-> alpha]

\* the loop that leaves out every layer that is not highlighted while one is
RECURSIVE render_hiding(_, _, _, _)
render_hiding(view, i, depth, should_dim) ==
    IF i > Len(view) THEN << >>
    ELSE IF view[i].visible /\ view[i].graphics # NULL /\ (should_dim => view[i].highlighted)
    THEN << Call("render", view[i].name, depth, view[i].opacity) >>
            \o render_hiding(view, i + 1, depth + DEPTH_STEP, should_dim)
    ELSE render_hiding(view, i + 1, depth, should_dim)

\* the loop that steps the depth only after an invisible layer
RECURSIVE render_stalling(_, _, _, _)
render_stalling(view, i, depth, should_dim) ==
    IF i > Len(view) THEN << >>
    ELSE IF view[i].visible /\ view[i].graphics # NULL
    THEN << Call("render", view[i].name, depth,
                 IF should_dim /\ ~view[i].highlighted THEN DIM_ALPHA ELSE view[i].opacity) >>
            \o render_stalling(view, i + 1, depth, should_dim)
    ELSE render_stalling(view, i + 1, depth + DEPTH_STEP, should_dim)

\* Viewer.on_draw: the loop over layers.in_display_order() from layer i on
RECURSIVE render_layers(_, _, _, _)
render_layers(view, i, depth, should_dim) ==
    IF i > Len(view) THEN << >>
    ELSE IF view[i].visible /\ view[i].graphics # NULL
    THEN << Call("render", view[i].name, depth,
                 IF should_dim /\ ~view[i].highlighted THEN DIM_ALPHA ELSE view[i].opacity) >>
            \o render_layers(view, i + 1, depth + DEPTH_STEP, should_dim)
    ELSE render_layers(view, i + 1, depth, should_dim)

\* Viewer.on_draw(): the calls it makes
on_draw(d) ==
    << Call("clear_canvas", "", 0, 0) >>
        \o (IF d.view = NULL THEN << >>
            ELSE render_layers(in_display_order(d), 1, DEPTH_START,
                               is_any_layer_highlighted(in_display_order(d))))

\* Viewer.draw(), called by the page, by a viewport change or by
\* paint_selected: one more callback for the next animation frame
draw(d) == [d EXCEPT !.frames = @ + 1]

\* a primitive of the overlay: renderer.line or renderer.polygon over a box,
\* grown by grow percent of its width
Prim(shape, bbox, grow) == [shape |-> shape, bbox |-> bbox, grow |-> grow]

\* Viewer.paint_selected: the dashed outline and the fill of the rectangle
rect_prims(start, end) ==
    LET selection_rect == from_corners(start.x, start.y, end.x, end.y)
    IN  << Prim("line", selection_rect, 0), Prim("polygon", selection_rect, 0) >>

\* Viewer.paint_selected: the highlights, one outline and one fill for the
\* first matching entry of every interactive layer, item by item
highlight_prims(items) ==
    Flatten([k \in 1..Len(items) |->
        Flatten([i \in 1..Len(item_bboxes(items[k])) |->
            << Prim("line", item_bboxes(items[k])[i], 10),
               Prim("polygon", item_bboxes(items[k])[i], 10) >>])])

\* paint_selected without layer.clear(): an overlay with nothing to draw
\* keeps the drawable it had
paint_selected_no_clear(d, sel) ==
    LET rect == IF is_box_selecting /\ box_selection_start # NULL /\ box_selection_end # NULL
                THEN Drawable("overlay", rect_prims(box_selection_start, box_selection_end))
                ELSE d.overlay
    IN  draw([d EXCEPT !.overlay =
                    IF Len(sel.selected_items) > 0
                    THEN Drawable("overlay", highlight_prims(sel.selected_items))
                    ELSE rect])

\* Viewer.paint_selected(): the overlay is cleared, the rectangle is compiled
\* into it while a box is being dragged, the highlights are compiled into it
\* when nodes are selected, and a redraw is requested
paint_selected(d, sel) ==
    LET rect == IF is_box_selecting /\ box_selection_start # NULL /\ box_selection_end # NULL
                THEN Drawable("overlay", rect_prims(box_selection_start, box_selection_end))
                ELSE NULL
    IN  draw([d EXCEPT !.overlay =
                    IF Len(sel.selected_items) > 0
                    THEN Drawable("overlay", highlight_prims(sel.selected_items))
                    ELSE rect])

\* later(() => this.paint_selected()), n times
later(d, n) == [d EXCEPT !.timers = @ + n]

\* ------------------------------------------------------------ loaded gate
\* waits on the gate are issued by up to MaxWaits callers, and the load is
\* resolved successfully up to MaxLoads times
MaxWaits == 3
MaxLoads == 2
Waits == 1..MaxWaits

\* new Barrier(): closed, nobody waiting; events counts the KiCanvasLoadEvent
\* dispatched
Barrier == [open |-> FALSE, waits |-> [w \in Waits |-> "none"], events |-> 0]

\* Barrier.open(): the gate is open from now on
open(l) == [l EXCEPT !.open = TRUE]

\* resolve_loaded without the test of its argument
resolve_loaded_any(l, value) == [open(l) EXCEPT !.events = @ + 1]

\* Viewer.resolve_loaded(value)
resolve_loaded(l, value) ==
    IF value THEN [open(l) EXCEPT !.events = @ + 1] ELSE l

\* ------------------------------------------------------------------- Init
InitViewer ==
    /\ mouse_position = Vec2(0, 0)
    /\ mouse_down_position = NULL
    /\ box_selection_start = NULL
    /\ box_selection_end = NULL
    /\ is_box_selecting = FALSE
    /\ selected_items = << >>
    /\ selection_bbox = NULL
    /\ selected = NULL
    /\ last = Last("init", "none")
    /\ gesture = NoGesture
    /\ copy = CopyIdle
    /\ loaded = Barrier

Init ==
    /\ InitViewer
    /\ document = Document(<< "r", "e", "c", "t", "a", "n", "g", "l", "e" >>)
    /\ ser = SerIdle
    /\ display = Display(0, 0, NULL, painted_view)

\* ---------------------------------------------------------------- handlers
SetSelection(sel) ==
    /\ selected_items' = sel.selected_items
    /\ selection_bbox' = sel.selection_bbox
    /\ selected' = sel.selected

\* Viewer.on_mouse_change(e): the new mouse_position
on_mouse_change(e) ==
    LET new_position == screen_to_world(e)
    IN  IF mouse_position.x # new_position.x \/ mouse_position.y # new_position.y
        THEN new_position ELSE mouse_position

\* Viewer.on_box_selection_move(e), run after on_mouse_change stored pos
on_box_selection_move(e, pos) ==
    LET screen_current == e
        screen_start   == world_to_screen(mouse_down_position)
    IN  IF mouse_down_position = NULL
        THEN UNCHANGED machine
        ELSE IF MagnitudeGT(screen_current, screen_start, DRAG_THRESHOLD_move)
        THEN /\ box_selection_start' =
                    IF box_selection_start = NULL THEN mouse_down_position
                    ELSE box_selection_start
             /\ is_box_selecting' =
                    IF box_selection_start = NULL THEN TRUE ELSE is_box_selecting
             /\ box_selection_end' = pos
             /\ UNCHANGED mouse_down_position
        ELSE UNCHANGED machine

\* the pointer is more than 5 px from where the press is on screen now
FarFromPress(e) ==
    LET s == world_to_screen(mouse_down_position)
    IN  (e.x - s.x) * (e.x - s.x) + (e.y - s.y) * (e.y - s.y) > 25

\* listener for "mousemove" on the canvas
MouseMove(e) ==
    /\ mouse_position' = on_mouse_change(e)
    /\ IF mouse_down_position # NULL
       THEN on_box_selection_move(e, mouse_position')
       ELSE UNCHANGED machine
    /\ gesture' = IF mouse_down_position # NULL /\ FarFromPress(e)
                  THEN [gesture EXCEPT !.exceeded = TRUE] ELSE gesture
    /\ last' = Last("other", "none")
    /\ UNCHANGED selection
    /\ UNCHANGED <<document, copy, ser, display, loaded>>

\* listener for "panzoom" on the canvas
Panzoom(e) ==
    /\ mouse_position' = on_mouse_change(e)
    /\ last' = Last("other", "none")
    /\ UNCHANGED <<machine, selection, gesture, document, copy, ser, display, loaded>>

\* on_mouse_down without the modifier test
on_mouse_down_any(ctrlKey, shiftKey) ==
    /\ mouse_down_position' = mouse_position
    /\ is_box_selecting' = FALSE
    /\ UNCHANGED <<box_selection_start, box_selection_end>>

\* Viewer.on_mouse_down(e)
on_mouse_down(ctrlKey, shiftKey) ==
    IF ctrlKey \/ shiftKey
    THEN UNCHANGED machine
    ELSE /\ mouse_down_position' = mouse_position
         /\ is_box_selecting' = FALSE
         /\ UNCHANGED <<box_selection_start, box_selection_end>>

\* listener for "mousedown" on the canvas, e.button === 0.  The primary
\* button goes down only when it is up.
MouseDown(ctrlKey, shiftKey) ==
    /\ gesture.pressed = "none"
    /\ on_mouse_down(ctrlKey, shiftKey)
    /\ gesture' = [pressed   |-> IF ctrlKey \/ shiftKey THEN "modifier" ELSE "plain",
                   from_idle |-> Idle,
                   exceeded  |-> FALSE]
    /\ last' = Last("other", "none")
    /\ UNCHANGED <<mouse_position, selection, document, copy, ser, display, loaded>>

\* how Viewer.on_mouse_up(e) resolves the gesture
up_resolution(e) ==
    LET screen_current == e
        screen_start   == world_to_screen(mouse_down_position)
    IN  IF mouse_down_position = NULL THEN "ignored"
        ELSE IF MagnitudeLE(screen_current, screen_start, DRAG_THRESHOLD_up) THEN "click"
        ELSE IF box_selection_start # NULL /\ box_selection_end # NULL THEN "box"
        ELSE "none"

\* the reset forgetting the live corner
reset_keep_end ==
    /\ mouse_down_position' = NULL
    /\ box_selection_start' = NULL
    /\ is_box_selecting' = FALSE
    /\ UNCHANGED box_selection_end

\* the reset at the end of Viewer.on_mouse_up
reset_box_selection ==
    /\ mouse_down_position' = NULL
    /\ box_selection_start' = NULL
    /\ box_selection_end' = NULL
    /\ is_box_selecting' = FALSE

\* Viewer.on_mouse_up(e)
on_mouse_up(e) ==
    LET res == up_resolution(e)
    IN  /\ IF res = "ignored" THEN UNCHANGED <<machine, selection>>
           ELSE /\ reset_box_selection
                /\ IF res = "click"
                   THEN SetSelection(on_pick(CurSel, query_point(mouse_position)))
                   ELSE IF res = "box"
                   THEN SetSelection(complete_box_selection(CurSel, box_selection_start,
                                                            box_selection_end))
                   ELSE UNCHANGED selection
        /\ last' = [Notified(Last("mouseup", res), CurSel,
                              IF res = "click"
                              THEN select_events(CurSel, on_pick(CurSel, query_point(mouse_position)))
                              ELSE IF res = "box"
                              THEN select_events(CurSel,
                                        complete_box_selection(CurSel, box_selection_start,
                                                               box_selection_end))
                              ELSE << >>) EXCEPT
                        !.pos = e,
                        !.press = mouse_down_position,
                        !.selecting = is_box_selecting,
                        !.far = (mouse_down_position # NULL /\ FarFromPress(e)),
                        !.before = selected_items,
                        !.items = selected_items',
                        !.rect = IF res = "box"
                                 THEN from_corners(box_selection_start.x, box_selection_start.y,
                                                   box_selection_end.x, box_selection_end.y)
                                 ELSE NULL,
                        !.gesture = gesture]

\* listener for "mouseup" on the document, e.button === 0
MouseUp(e) ==
    /\ on_mouse_up(e)
    /\ gesture' = NoGesture
    /\ UNCHANGED <<mouse_position, document, copy, ser, display, loaded>>

\* listener for "keydown" on the document, key Escape
KeyDownEscape ==
    /\ SetSelection(clear_selection(CurSel))
    /\ last' = Notified(Last("keydown", "Escape"), CurSel, clear_selection_events(CurSel))
    /\ UNCHANGED <<mouse_position, machine, gesture, document, copy, ser, display, loaded>>

Next ==
    \/ \E e \in Screen : MouseMove(e)
    \/ \E e \in Screen : Panzoom(e)
    \/ \E ctrlKey \in BOOLEAN, shiftKey \in BOOLEAN : MouseDown(ctrlKey, shiftKey)
    \/ \E e \in Screen : MouseUp(e)
    \/ KeyDownEscape

\* ------------------------------------------------- programmatic selection
\* the nodes callers of the public API name
ApiNodes == {"n1", "n2", "n3"}

\* the boxes a caller can hand to select(): null, the indexed box of a node,
\* or a box that belongs to no node
PickableBoxes ==
    {NULL, from_corners(0, 0, 1, 1)}
        \cup UNION {{l.bboxes[j].bbox : j \in {k \in 1..Len(l.bboxes) : l.bboxes[k].item \in ApiNodes}} :
                        l \in Range(layers)}

\* the iterables a caller can hand to select_items()
RECURSIVE SeqsUpTo(_, _)
SeqsUpTo(S, n) ==
    IF n = 0 THEN {<< >>}
    ELSE SeqsUpTo(S, n - 1) \cup {Append(q, v) : q \in SeqsUpTo(S, n - 1), v \in S}

Select(item) ==
    /\ SetSelection(select(CurSel, item))
    /\ last' = [Notified(Last("select", "none"), CurSel,
                          select_events(CurSel, select(CurSel, item))) EXCEPT !.rect = item]
    /\ UNCHANGED <<mouse_position, machine, gesture, document, copy, ser, display, loaded>>

SelectItems(items, additive) ==
    /\ SetSelection(select_items(CurSel, items, additive))
    /\ last' = [Notified(Last("select_items", "none"), CurSel,
                          select_events(CurSel, select_items(CurSel, items, additive)))
                    EXCEPT !.items = items, !.additive = additive]
    /\ UNCHANGED <<mouse_position, machine, gesture, document, copy, ser, display, loaded>>

SelectItem(item, additive) ==
    /\ SetSelection(select_item(CurSel, item, additive))
    /\ last' = [Notified(Last("select_item", "none"), CurSel,
                          select_events(CurSel, select_item(CurSel, item, additive)))
                    EXCEPT !.items = << item >>, !.additive = additive]
    /\ UNCHANGED <<mouse_position, machine, gesture, document, copy, ser, display, loaded>>

ClearSelection ==
    /\ SetSelection(clear_selection(CurSel))
    /\ last' = Notified(Last("clear_selection", "none"), CurSel, clear_selection_events(CurSel))
    /\ UNCHANGED <<mouse_position, machine, gesture, document, copy, ser, display, loaded>>

NextApi ==
    \/ \E item \in PickableBoxes : Select(item)
    \/ \E items \in SeqsUpTo(ApiNodes, MaxItems), additive \in BOOLEAN : SelectItems(items, additive)
    \/ \E item \in ApiNodes, additive \in BOOLEAN : SelectItem(item, additive)
    \/ ClearSelection

\* The public selection API called in any order, the pointer at rest.
SpecApi == Init /\ [][NextApi]_vars

\* Every release of the primary button reaches the document listener.
Spec == Init /\ [][Next]_vars

\* The button is released where the document does not hear it (outside the
\* frame, or under a handler that stops propagation): no handler runs.
LostMouseUp ==
    /\ gesture.pressed # "none"
    /\ gesture' = NoGesture
    /\ last' = Last("other", "none")
    /\ UNCHANGED <<mouse_position, machine, selection, document, copy, ser, display, loaded>>

NextAny ==
    \/ Next
    \/ LostMouseUp

\* As Spec, but a release may be lost, so presses and releases that reach the
\* viewer need not alternate.
SpecAny == Init /\ [][NextAny]_vars

\* ------------------------------------------------------- clipboard export
\* select_item(item, additive) called by the embedding page, no history kept.
\* Nodes are added while no copy is suspended; while one is, a single node is
\* selected in place of the selection.
PickItem(item, additive) ==
    /\ additive => (copy.pc = "idle" /\ Len(selected_items) < MaxSelected)
    /\ SetSelection(select_item(CurSel, item, additive))
    /\ last' = Last("select_item", "none")
    /\ UNCHANGED <<mouse_position, machine, gesture, document, copy, ser, display, loaded>>

\* listener for "keydown" on the document, Ctrl+C or Meta+C: Viewer.on_copy
\* up to its first await.  One call is suspended at a time.
KeyDownCopy ==
    /\ copy.pc = "idle"
    /\ IF Len(selected_items) = 0
       THEN /\ copy' = copy
            /\ last' = [Last("copy", "empty") EXCEPT !.before = selected_items]
       ELSE /\ copy' = [pc |-> "import", requested |-> selected_items, text |-> << >>]
            /\ last' = [Last("copy", "import") EXCEPT !.before = selected_items]
    /\ UNCHANGED <<mouse_position, machine, selection, gesture, document, ser, display, loaded>>

\* Viewer.on_copy resumed with the serializer module: the loop over the
\* selection, the text, and the call of navigator.clipboard.writeText
CopyImported ==
    /\ copy.pc = "import"
    /\ LET got  == collect(document, selected_items, Collected(<< >>, << >>, << >>, << >>))
           libs == [i \in 1..Len(got.lib_symbols) |-> got.lib_symbols[i].lib_id]
           text == clipboard_text(got.lib_symbols, got.schematic_items)
       IN  IF nothing_collected(got)
           THEN /\ copy' = CopyIdle
                /\ last' = [Last("copy", "nothing") EXCEPT
                                !.before = copy.requested,
                                !.out = Out(<< >>, got.exported, libs, FALSE,
                                            Append(got.console,
                                                   Console("warn", "No serializable items selected",
                                                           << >>)))]
           ELSE /\ copy' = [copy EXCEPT !.pc = "write", !.text = text]
                /\ last' = [Last("copy", "write") EXCEPT
                                !.before = copy.requested,
                                !.out = Out(text, got.exported, libs, TRUE, got.console)]
    /\ UNCHANGED <<mouse_position, machine, selection, gesture, document, ser, display, loaded>>

\* Viewer.on_copy resumed after writeText: the promise resolved (ok) or was
\* rejected and the catch block ran
CopyWritten(ok) ==
    /\ copy.pc = "write"
    /\ copy' = CopyIdle
    /\ last' = [Last("copy", IF ok THEN "copied" ELSE "failed") EXCEPT
                    !.before = copy.requested,
                    !.out = Out(copy.text, << >>, << >>, FALSE, write_console(ok, copy.text))]
    /\ UNCHANGED <<mouse_position, machine, selection, gesture, document, ser, display, loaded>>

NextCopy ==
    \/ \E item \in CopyNodes, additive \in BOOLEAN : PickItem(item, additive)
    \/ KeyDownEscape
    \/ KeyDownCopy
    \/ CopyImported
    \/ \E ok \in BOOLEAN : CopyWritten(ok)

\* any document whose drawing-sheet item n4 is of one of the skipped types
InitCopy ==
    /\ InitViewer
    /\ document \in {Document(sheet) : sheet \in skip_types}
    /\ ser = SerIdle
    /\ display = Display(0, 0, NULL, painted_view)

\* Selection by the page, Escape and Ctrl+C on a loaded document, the
\* pointer at rest.
SpecCopy == InitCopy /\ [][NextCopy]_vars

\* ------------------------------------------------------------- serializer
\* the strings of the Lists handed to the serializer: a keyword, a keyword
\* that reads as a number, a value that reads as a number, a reference, the
\* empty string, and strings with characters that need escaping, one of them
\* ending in a backslash
SerStrings == {
    << "a", BS >>,
    << "a", "t" >>,
    << "0" >>,
    << "1", "0" >>,
    << "R", "1" >>,
    << >>,
    << DQ, BS, "n", LF >>
}

\* the elements of those Lists
SerElements ==
    {Str(str) : str \in SerStrings}
        \cup {Num(0 - 12)}
        \cup {List(<< Str(<< "a", "t" >>), Num(90), List(<< >>) >>),
              List(<< List(<< Str(<< " ", TAB, CR, "(" >>) >>) >>)}

\* the Lists handed to the serializer
SerLists == {List(v) : v \in SeqsUpTo(SerElements, MaxLen)}

\* list_to_string(expr, formatted) called on a List
ListToString(formatted) ==
    /\ ser.phase = "input"
    /\ ser' = [ser EXCEPT !.phase = "text", !.formatted = formatted,
                          !.text = list_to_string(ser.expr, formatted)]
    /\ last' = Last("list_to_string", "none")
    /\ UNCHANGED <<mouse_position, machine, selection, gesture, document, copy, display, loaded>>

\* the text tokenized and parsed again
Listify ==
    /\ ser.phase = "text"
    /\ ser' = [ser EXCEPT !.phase = "parsed", !.back = listify(ser.text)]
    /\ last' = Last("listify", "none")
    /\ UNCHANGED <<mouse_position, machine, selection, gesture, document, copy, display, loaded>>

NextSer ==
    \/ \E formatted \in BOOLEAN : ListToString(formatted)
    \/ Listify

InitSer ==
    /\ InitViewer
    /\ document = Document(<< "r", "e", "c", "t", "a", "n", "g", "l", "e" >>)
    /\ ser \in {[SerIdle EXCEPT !.phase = "input", !.expr = expr] : expr \in SerLists}
    /\ display = Display(0, 0, NULL, painted_view)

\* The serializer applied to a List, and the tokenizer to its output.
SpecSer == InitSer /\ [][NextSer]_vars

\* ------------------------------------------------------ frame composition
\* the opacities layers are given
Opacities == {100, 10}

\* the states a layer can be in when a frame is composed
LayerStates(name) ==
    {ViewLayer(name, visible, highlighted, opacity, graphics) :
        visible \in BOOLEAN, highlighted \in BOOLEAN, opacity \in Opacities,
        graphics \in {NULL, Drawable(name, << >>)}}

\* Viewer.draw() called by the page or by a viewport change
Draw ==
    /\ display.frames < MaxPending
    /\ display' = draw(display)
    /\ last' = Last("draw", "none")
    /\ UNCHANGED <<mouse_position, machine, selection, gesture, document, copy, ser, loaded>>

\* the next animation frame: every callback registered with
\* requestAnimationFrame since the last frame runs, each one on_draw()
AnimationFrame ==
    /\ display.frames > 0
    /\ display' = [display EXCEPT
                        !.frames = 0,
                        !.composed = [on_draws |-> display.frames,
                                      calls |-> on_draw(display)]]
    /\ last' = Last("frame", "none")
    /\ UNCHANGED <<mouse_position, machine, selection, gesture, document, copy, ser, loaded>>

NextDraw ==
    \/ Draw
    \/ AnimationFrame

\* three layers in any state, or no layer set yet
InitDraw ==
    /\ InitViewer
    /\ document = Document(<< "r", "e", "c", "t", "a", "n", "g", "l", "e" >>)
    /\ ser = SerIdle
    /\ display \in {Display(0, 0, NULL, view) :
                        view \in {NULL} \cup {[list |-> << a, b, c >>] :
                                                    a \in LayerStates("A"),
                                                    b \in LayerStates("B"),
                                                    c \in LayerStates("C")}}

\* Redraw requests and animation frames, the pointer at rest.
SpecDraw == InitDraw /\ [][NextDraw]_vars

\* --------------------------------------------------------- overlay repaint
\* listener for "mousemove" on the canvas, with the repaint it defers
PointerMove(e) ==
    /\ display.timers < MaxPending
    /\ mouse_position' = on_mouse_change(e)
    /\ IF mouse_down_position # NULL
       THEN on_box_selection_move(e, mouse_position')
       ELSE UNCHANGED machine
    /\ gesture' = IF mouse_down_position # NULL /\ FarFromPress(e)
                  THEN [gesture EXCEPT !.exceeded = TRUE] ELSE gesture
    /\ LET far == mouse_down_position # NULL
                    /\ MagnitudeGT(e, world_to_screen(mouse_down_position), DRAG_THRESHOLD_move)
       IN  /\ display' = later(display, IF far THEN 1 ELSE 0)
           /\ last' = [Last("mousemove", IF far THEN "far" ELSE "near") EXCEPT
                            !.pos = e,
                            !.press = mouse_down_position,
                            !.selecting = is_box_selecting,
                            !.far = far,
                            !.repaints = IF far THEN 1 ELSE 0]
    /\ UNCHANGED <<selection, document, copy, ser, loaded>>

\* listener for "mouseup" on the document, e.button === 0, with the
\* repaints it defers: one for every selection event and one of its own
PointerUp(e) ==
    /\ display.timers = 0
    /\ on_mouse_up(e)
    /\ gesture' = NoGesture
    /\ display' = later(display, IF up_resolution(e) = "ignored" THEN 0
                                 ELSE last'.repaints + 1)
    /\ UNCHANGED <<mouse_position, document, copy, ser, loaded>>

\* a callback deferred with later() runs: Viewer.paint_selected(); last.rect
\* remembers the rectangle this run of repaints found in the overlay
PaintSelected ==
    /\ display.timers > 0
    /\ display.frames < MaxPending
    /\ display' = paint_selected([display EXCEPT !.timers = @ - 1], CurSel)
    /\ last' = [Last("paint_selected", "none") EXCEPT
                    !.rect = IF display.overlay # NULL /\ Len(display.overlay.prims) > 0
                                    /\ display.overlay.prims[1].grow = 0
                             THEN display.overlay.prims[1].bbox
                             ELSE IF last.op = "paint_selected" THEN last.rect ELSE NULL]
    /\ UNCHANGED <<mouse_position, machine, selection, gesture, document, copy, ser, loaded>>

NextPaint ==
    \/ \E ctrlKey \in BOOLEAN, shiftKey \in BOOLEAN : MouseDown(ctrlKey, shiftKey)
    \/ \E e \in Screen : PointerMove(e)
    \/ \E e \in Screen : PointerUp(e)
    \/ PaintSelected
    \/ AnimationFrame

\* Presses, moves and releases with the overlay repaints they defer and the
\* animation frames that follow.
SpecPaint == Init /\ [][NextPaint]_vars

\* ------------------------------------------------------------------ load
\* Viewer.resolve_loaded(value), called by load() of a viewer
ResolveLoaded(value) ==
    /\ value => loaded.events < MaxLoads
    /\ loaded' = resolve_loaded(loaded, value)
    /\ last' = Last("resolve_loaded", IF value THEN "true" ELSE "false")
    /\ UNCHANGED <<mouse_position, machine, selection, gesture, document, copy, ser, display>>

\* a caller reaches `await viewer.loaded`, for the first time or again
Wait(w) ==
    /\ loaded.waits[w] # "waiting"
    /\ loaded' = [loaded EXCEPT !.waits[w] = "waiting"]
    /\ last' = Last("wait", "none")
    /\ UNCHANGED <<mouse_position, machine, selection, gesture, document, copy, ser, display>>

\* the caller is resumed: the gate is open
Resume(w) ==
    /\ loaded.waits[w] = "waiting"
    /\ loaded.open
    /\ loaded' = [loaded EXCEPT !.waits[w] = "done"]
    /\ last' = Last("resume", "none")
    /\ UNCHANGED <<mouse_position, machine, selection, gesture, document, copy, ser, display>>

NextLoad ==
    \/ \E value \in BOOLEAN : ResolveLoaded(value)
    \/ \E w \in Waits : Wait(w)
    \/ \E w \in Waits : Resume(w)

\* Loads that succeed or fail and callers awaiting the gate; a caller whose
\* promise is settled is resumed by the event loop.
SpecLoad == Init /\ [][NextLoad]_vars /\ \A w \in Waits : WF_vars(Resume(w))

\* ================================================================= claims
Released == last.op = "mouseup"
ReleasedAs(res) == last.op = "mouseup" /\ last.res = res

\* every entry of every layer's bounding-box index, with its layer's flags
IndexEntries ==
    UNION {{[item |-> l.bboxes[j].item, bbox |-> l.bboxes[j].bbox,
             visible |-> l.visible, interactive |-> l.interactive] :
                j \in 1..Len(l.bboxes)} : l \in Range(layers)}

\* every box of the world grid
WorldBoxes ==
    {BBox(px, py, pw, ph, NO_CONTEXT) :
        px \in (0 - camera_pan)..MaxX, py \in 0..MaxY, pw \in 0..MaxX, ph \in 0..MaxY}

\* C1: once the machine is BOX_SELECTING, the next primary-button release
\* resolves as a box selection, wherever the pointer is at the release.
C1_BoxSelectingReleaseIsBox == (Released /\ last.selecting) => last.res = "box"

\* C2: a gesture (a press made with the machine IDLE, moves, a release) whose
\* displacement from the press never exceeds 5 px (exactly 5 px included)
\* resolves as a click and never starts box selection; a move farther than
\* 5 px starts box selection; the release is a click exactly when its
\* displacement is not greater than 5 px, the comparison the moves use.
C2_DragThreshold ==
    /\ (gesture.pressed = "plain" /\ gesture.from_idle /\ ~gesture.exceeded) =>
            (~is_box_selecting /\ box_selection_start = NULL /\ box_selection_end = NULL)
    /\ (gesture.pressed = "plain" /\ gesture.from_idle /\ gesture.exceeded) =>
            (is_box_selecting /\ box_selection_start = mouse_down_position
                /\ box_selection_end # NULL)
    /\ (Released /\ last.gesture.pressed = "plain") =>
            /\ (last.res = "click") <=> ~last.far
            /\ (~last.gesture.exceeded /\ ~last.far) => (last.res = "click" /\ ~last.selecting)

\* a release exactly 5 px from the press, no move having gone farther
W_C2 ==
    /\ ReleasedAs("click")
    /\ last.gesture.pressed = "plain"
    /\ ~last.gesture.exceeded
    /\ SqMagnitude(last.pos, world_to_screen(last.press)) = 25

\* C3: a release that resolves as a click selects exactly the first hit of
\* query_point at the pointer position, or clears the selection when nothing
\* is hit.
C3_ClickSelectsTopmost ==
    ReleasedAs("click") =>
        LET hits == query_point(mouse_position)
        IN  IF hits = << >>
            THEN selected_items = << >> /\ selection_bbox = NULL /\ selected = NULL
            ELSE selected_items = << hits[1].context >>

\* a click on a point two boxes contain, replacing a selection of other nodes
W_C3 ==
    /\ ReleasedAs("click")
    /\ Len(query_point(mouse_position)) > 1
    /\ last.before # << >>
    /\ Range(last.before) \cap Range(selected_items) = {}

\* C4: a release that resolves as a box selection leaves exactly the query
\* result selected; an empty result leaves all three selection fields cleared.
C4_BoxReplacesSelection ==
    ReleasedAs("box") =>
        /\ selected_items = box_query(last.rect)
        /\ box_query(last.rect) = << >> =>
                (selected_items = << >> /\ selection_bbox = NULL /\ selected = NULL)

\* a box selection that drops a node selected before the drag
W_C4 ==
    /\ ReleasedAs("box")
    /\ selected_items # << >>
    /\ Range(last.before) \ Range(selected_items) # {}

\* C5: box selection selects exactly the nodes (of the walked layers) whose
\* box overlaps the rectangle, and contains-or-intersects is the same test as
\* intersects for the rectangle and every box.
C5_IntersectionSemantics ==
    ReleasedAs("box") =>
        /\ Range(selected_items) =
                {e.item : e \in {f \in IndexEntries : f.visible /\ intersects(last.rect, f.bbox)}}
        /\ \A b \in WorldBoxes : box_test(last.rect, b) <=> intersects(last.rect, b)

\* one drag with an enclosed box, a partly overlapping box and a disjoint box
W_C5 ==
    /\ ReleasedAs("box")
    /\ \E e \in IndexEntries : e.item \in Range(selected_items) /\ contains(last.rect, e.bbox)
    /\ \E e \in IndexEntries : e.item \in Range(selected_items) /\ ~contains(last.rect, e.bbox)
    /\ \E e \in IndexEntries : e.visible /\ ~intersects(last.rect, e.bbox)

\* nodes indexed in no interactive layer
OnlyNonInteractive == {n \in Nodes : \A e \in IndexEntries : e.item = n => ~e.interactive}

\* nodes indexed in no visible layer
OnlyInvisible == {n \in Nodes : \A e \in IndexEntries : e.item = n => ~e.visible}

C7_RectSpansPressAndRelease ==
    ReleasedAs("box") =>
        LET release == screen_to_world(last.pos)
        IN  last.rect = from_corners(last.press.x, last.press.y, release.x, release.y)

\* C8: after any primary-button release is handled the machine is IDLE: press
\* position and both corners null, flag false.
C8_ReleaseResets == Released => Idle

\* a release handled while box selecting
W_C8 == Released /\ last.selecting /\ last.press # NULL

C10_ReplaceThenAdditive ==
    [][ /\ (last'.op = "select_items" /\ ~last'.additive) =>
                Range(selected_items') = Range(last'.items)
        /\ (last.op = "select_items" /\ ~last.additive
                /\ last'.op = "select_items" /\ last'.additive) =>
                Range(selected_items') = Range(last.items) \cup Range(last'.items) ]_vars

\* an additive call whose nodes overlap the ones already selected
W_C10 ==
    /\ last.op = "select_items"
    /\ last.additive
    /\ Range(selected_items) \ Range(last.items) # {}
    /\ Len(last.items) = 2

\* a handler that works on the selection has just run: a call of the public
\* selection API, a click, a box selection or Escape
Mutated ==
    \/ last.op \in {"select", "select_items", "select_item", "clear_selection", "keydown"}
    \/ ReleasedAs("click")
    \/ ReleasedAs("box")

\* the indexed boxes of a node, over every layer
node_boxes(n) ==
    Flatten([i \in 1..Len(layers) |->
        LET found == SelectSeq(layers[i].bboxes, LAMBDA e : e.item = n)
        IN  [j \in 1..Len(found) |-> found[j].bbox]])

\* the box around the boxes of all the given nodes, null for no node
CombinedBox(items) ==
    LET boxes == Flatten([i \in 1..Len(items) |-> node_boxes(items[i])])
    IN  IF boxes = << >> THEN NULL ELSE combine(boxes)

\* a box without its context
Geometry(b) == IF b = NULL THEN NULL ELSE [b EXCEPT !.context = NO_CONTEXT]

\* C11: after every mutation of the selection set the combined bounding box
\* is the combination of the boxes of all the nodes in the set, and null
\* when the set is empty.
C11_CombinedBoxCoversSet ==
    Mutated => Geometry(selection_bbox) = CombinedBox(selected_items)

\* C12: after every selection mutation the legacy accessor `selected` is the
\* sole node's box, its context that node, when one node is selected, and
\* the combined box of the whole set when several are.
C12_LegacySelected ==
    Mutated =>
        /\ Len(selected_items) = 1 =>
                (selected # NULL /\ selected.context = selected_items[1]
                    /\ Geometry(selected) = CombinedBox(selected_items))
        /\ Len(selected_items) > 1 =>
                Geometry(selected) = CombinedBox(selected_items)

\* C13: every step that changes the selection set, the combined box or the
\* legacy single selection dispatches a select event and schedules an
\* overlay repaint.
C13_ChangeNotifies ==
    [][ selection' # selection => (last'.events # << >> /\ last'.repaints > 0) ]_vars

\* null or undefined
IsAbsent(v) == v \in {NULL_REF, NO_CONTEXT}

\* C14: every select event carries as item the newly selected node, absent
\* exactly when the selection was cleared, and as previous the node that was
\* the single selection before the operation.
C14_EventItemAndPrevious ==
    \A i \in 1..Len(last.events) :
        LET e == last.events[i]
        IN  /\ IsAbsent(e.item) <=> selected_items = << >>
            /\ Len(selected_items) = 1 => e.item = selected_items[1]
            /\ IF IsAbsent(context_of(last.was))
               THEN IsAbsent(e.previous)
               ELSE e.previous = context_of(last.was)

\* C15: when an operation leaves more than one node selected, a select event
\* it dispatched carries the full new and the full previous selection sets.
C15_MultiSelectCarriesSets ==
    (Mutated /\ Len(selected_items) > 1) =>
        \E i \in 1..Len(last.events) :
            LET e == last.events[i]
            IN  /\ "items" \in DOMAIN e
                /\ e.items = Range(selected_items)
                /\ e.previous = Range(last.before)

\* C16: after Escape is handled the selection set is empty and the combined
\* box and the legacy single selection are null, whatever the machine state
\* and the selection were.
C16_EscapeClears ==
    (last.op = "keydown" /\ last.res = "Escape") =>
        (selected_items = << >> /\ selection_bbox = NULL /\ selected = NULL)

\* Escape handled in the middle of a box-selection drag, nodes selected
W_C16 ==
    /\ last.op = "keydown"
    /\ last.res = "Escape"
    /\ is_box_selecting
    /\ last.before # << >>
    /\ last.was # NULL

\* C17: tokenizing and parsing list_to_string(L), formatted or not, gives
\* back exactly L: same nesting, order, values, and strings stay strings and
\* numbers stay numbers.
C17_RoundTrip == ser.phase = "parsed" => ser.back = << ser.expr >>

\* on_copy has just built its text and called clipboard.writeText
Assembled == last.op = "copy" /\ last.res = "write"

\* the expressions read back from the text handed to the clipboard
Exported == listify(last.out.text)

\* a (lib_symbols ...) expression
is_lib_block(e) ==
    /\ e.kind = "list"
    /\ Len(e.value) > 0
    /\ e.value[1] = Str(<< "l", "i", "b", "_", "s", "y", "m", "b", "o", "l", "s" >>)

\* the node retains a non-empty expression
Retained(n) ==
    /\ document[n].raw_expr # Undefined
    /\ document[n].raw_expr.kind = "list"
    /\ Len(document[n].raw_expr.value) > 0

\* the node's retained expression starts with rect, rectangle, image or bitmap
Skipped(n) ==
    /\ Retained(n)
    /\ document[n].raw_expr.value[1].kind = "string"
    /\ document[n].raw_expr.value[1].value \in skip_types

\* a symbol instance that resolves to a library definition
References(n) ==
    /\ Retained(n)
    /\ document[n].raw_expr.value[1] = Str(<< "s", "y", "m", "b", "o", "l" >>)
    /\ document[n].lib_id # ""
    /\ document[n].lib_symbol # Undefined

\* C18: the exported text has a (lib_symbols ...) block iff an exported symbol
\* instance references a library definition; the block is the first
\* expression of the text, and it holds each referenced definition exactly
\* once, one entry per distinct lib_id.
C18_LibSymbolsBlock ==
    Assembled =>
        LET blocks == {i \in 1..Len(Exported) : is_lib_block(Exported[i])}
            refs   == {n \in Range(selected_items) : ~Skipped(n) /\ References(n)}
            ids    == {document[n].lib_id : n \in refs}
        IN  /\ blocks # {} <=> refs # {}
            /\ blocks \subseteq {1}
            /\ blocks # {} =>
                    LET defs == Tail(Exported[1].value)
                    IN  /\ Len(defs) = Cardinality(ids)
                        /\ \A n \in refs :
                                Cardinality({j \in 1..Len(defs) :
                                    defs[j] = document[n].lib_symbol.raw_expr}) = 1

\* two selected instances of one library symbol
W_C18 ==
    /\ Assembled
    /\ Cardinality({n \in Range(selected_items) : References(n)}) = 2
    /\ Cardinality({document[n].lib_id : n \in {m \in Range(selected_items) : References(m)}}) = 1

\* C19: no selected node whose retained expression starts with rect,
\* rectangle, image or bitmap is in the exported text, and the item
\* expressions of the text are the retained expressions of the other selected
\* nodes, each once, in the order of the selection set.
C19_SkipsSheetItems ==
    Assembled =>
        LET items == IF Exported # << >> /\ is_lib_block(Exported[1])
                     THEN Tail(Exported) ELSE Exported
            kept  == SelectSeq(selected_items, LAMBDA n : Retained(n) /\ ~Skipped(n))
        IN  /\ items = [i \in 1..Len(kept) |-> document[kept[i]].raw_expr]
            /\ \A n \in Range(selected_items) :
                    Skipped(n) => document[n].raw_expr \notin Range(items)

\* a drawing-sheet item selected before a node that is exported
W_C19 ==
    /\ Assembled
    /\ Len(selected_items) = 2
    /\ Skipped(selected_items[1])
    /\ last.out.exported = << selected_items[2] >>

\* C20: a copy request made with nothing selected returns at once and never
\* calls clipboard.writeText, and writeText is called only when an item or a
\* library definition was collected.
C20_EmptyCopyNoOp ==
    /\ (last.op = "copy" /\ last.before = << >>) =>
            (last.res = "empty" /\ copy.pc = "idle" /\ ~last.out.wrote)
    /\ (last.op = "copy" /\ last.out.wrote) =>
            (last.out.exported # << >> \/ last.out.lib_ids # << >>)

\* Ctrl+C pressed with nothing selected
W_C20 == last.op = "copy" /\ last.res = "empty" /\ selected_items = << >>

\* C21: a clipboard write that fails is reported and is not fatal.  The step
\* of on_copy that follows writeText, resolved or rejected, ends the call,
\* leaves the selection, the interaction state and the pointer as they were,
\* and logs the text that was assembled; a rejection is logged as an error.
C21_SinkFailureReported ==
    [][(copy.pc = "write" /\ copy'.pc # "write")
            => /\ copy' = CopyIdle
               /\ selection' = selection
               /\ machine' = machine
               /\ mouse_position' = mouse_position
               /\ last'.op = "copy" /\ last'.res \in {"copied", "failed"}
               /\ copy.text # << >>
               /\ \E i \in 1..Len(last'.out.console) :
                     /\ last'.out.console[i].level = "log"
                     /\ last'.out.console[i].arg = copy.text
               /\ (last'.res = "failed")
                     = (\E i \in 1..Len(last'.out.console) :
                            last'.out.console[i].level = "error")]_vars

\* a write failed while nodes were selected
W_C21 ==
    /\ last.op = "copy" /\ last.res = "failed"
    /\ Len(selected_items) > 0
    /\ last.out.text # << >>

\* C22: a selected node with no retained expression is left out of the
\* export, a warning is reported for it, and every other selected node that
\* is not of a skipped type is exported.
Warned == \E i \in 1..Len(last.out.console) : last.out.console[i].level = "warn"

C22_PartialExportWarning ==
    (last.op = "copy" /\ last.res \in {"write", "nothing"})
        => \A n \in Range(selected_items) :
                IF Retained(n)
                THEN Skipped(n) \/ n \in Range(last.out.exported)
                ELSE n \notin Range(last.out.exported) /\ Warned

\* C23: redraw requests coalesce.  However many redraws were scheduled since
\* the last animation frame, the frame runs on_draw at most once.
C23_RedrawsCoalesce == display.composed.on_draws <= 1

\* an animation frame has just composed the layers of a layer set
Composed == last.op = "frame" /\ display.view # NULL

\* the render calls of the last frame
Renders == SelectSeq(display.composed.calls, LAMBDA c : c.op = "render")

\* the layers of the last frame in display order, and whether one is highlighted
Shown == in_display_order(display)
Dimming == \E i \in 1..Len(Shown) : Shown[i].highlighted

\* the last frame rendered the layer exactly once, with this alpha
RenderedWith(layer, alpha) ==
    /\ Cardinality({k \in 1..Len(Renders) : Renders[k].layer = layer.name}) = 1
    /\ \E k \in 1..Len(Renders) : Renders[k].layer = layer.name /\ Renders[k].alpha = alpha

\* C28 as stated: while a layer is highlighted, every visible layer that is
\* not highlighted is rendered with alpha 0.25 and every visible highlighted
\* layer with its own opacity.
C28_VisibleLayersRendered ==
    (Composed /\ Dimming)
        => \A i \in 1..Len(Shown) :
                Shown[i].visible
                    => RenderedWith(Shown[i], IF Shown[i].highlighted THEN Shown[i].opacity
                                              ELSE DIM_ALPHA)

\* C28: the layers a frame renders are the visible layers that have a
\* compiled drawable, whether or not a layer is highlighted.  While one is,
\* each of them that is not highlighted is rendered with alpha 0.25 and each
\* highlighted one with its own opacity; while none is, each is rendered with
\* its own opacity.  A layer with no compiled drawable is not rendered.
C28_DimmedNotHidden ==
    Composed
        => \A i \in 1..Len(Shown) :
                IF Shown[i].visible /\ Shown[i].graphics # NULL
                THEN RenderedWith(Shown[i], IF Dimming /\ ~Shown[i].highlighted THEN DIM_ALPHA
                                            ELSE Shown[i].opacity)
                ELSE \A k \in 1..Len(Renders) : Renders[k].layer # Shown[i].name

\* a frame that dimmed a fully opaque layer next to a highlighted one
W_C28 ==
    /\ Composed
    /\ \E i, j \in 1..Len(Shown) :
            /\ Shown[i].highlighted /\ RenderedWith(Shown[i], Shown[i].opacity)
            /\ ~Shown[j].highlighted /\ Shown[j].opacity = 100
            /\ RenderedWith(Shown[j], DIM_ALPHA)

\* the layers that are visible and compiled, in display order
Renderable == SelectSeq(Shown, LAMBDA l : l.visible /\ l.graphics # NULL)

\* C29: a frame clears the canvas first and then renders the visible,
\* compiled layers in display order, the k-th of them at depth
\* 0.01 + (k - 1) * 0.01, so depths strictly increase; other layers are not
\* rendered and take no depth step.
C29_AscendingDepth ==
    last.op = "frame"
        => /\ display.composed.calls[1].op = "clear_canvas"
           /\ \A k \in 2..Len(display.composed.calls) : display.composed.calls[k].op = "render"
           /\ display.view # NULL
                => /\ Len(Renders) = Len(Renderable)
                   /\ \A k \in 1..Len(Renders) :
                        /\ Renders[k].layer = Renderable[k].name
                        /\ Renders[k].depth = DEPTH_START + (k - 1) * DEPTH_STEP
                   /\ \A j, k \in 1..Len(Renders) :
                        j < k => Renders[j].depth < Renders[k].depth
           /\ display.view = NULL => Len(display.composed.calls) = 1

\* a frame that rendered two layers around one it left out
W_C29 ==
    /\ Composed
    /\ Len(Renders) = 2
    /\ Renders[1].layer = "A" /\ Renders[2].layer = "C"
    /\ Shown[2].visible /\ Shown[2].graphics = NULL

\* the serializer has just rendered a List whose elements are all atoms
FlatText ==
    /\ ser.phase = "text"
    /\ \A i \in 1..Len(ser.expr.value) : ser.expr.value[i].kind # "list"

\* an atom as it has to appear when the strings of the set bare are emitted
\* as they are and all others quoted and escaped
AtomText(e, bare) ==
    IF e.kind = "number" THEN number_to_string(e.value)
    ELSE IF e.value \in bare THEN e.value
    ELSE << DQ >> \o escape_string(e.value) \o << DQ >>

\* the text of a List of atoms under that rule
FlatTextWith(bare) ==
    << "(" >> \o join([i \in 1..Len(ser.expr.value) |-> AtomText(ser.expr.value[i], bare)],
                      << " " >>) \o << ")" >>

\* C24 as stated: an atom is emitted bare iff it is a number, or a string of
\* the keyword list or one that reads as a number; every other string is
\* quoted and escaped.
C24_BareIffKeywordOrNumeric ==
    FlatText => ser.text = FlatTextWith(never_quote \cup {str \in SerStrings : is_number(str)})

\* C24: an atom is emitted bare iff it is a number or a string of the keyword
\* list; every other string, one that reads as a number included, is quoted
\* and escaped; the empty string and a string with whitespace, a parenthesis
\* or a double quote is always quoted.
C24_BareIffKeyword ==
    FlatText
        => /\ ser.text = FlatTextWith(never_quote)
           /\ \A i \in 1..Len(ser.expr.value) :
                LET e == ser.expr.value[i]
                IN  (e.kind = "string"
                        /\ (e.value = << >> \/ \E k \in 1..Len(e.value) :
                                                e.value[k] \in Whitespace \cup {"(", ")", DQ}))
                        => /\ e.value \notin never_quote
                           /\ Head(serialize_atom(e)) = DQ

\* a keyword, a string that reads as a number and a number rendered together
W_C24 ==
    /\ FlatText
    /\ ser.expr.value = << Str(<< "a", "t" >>), Str(<< "1", "0" >>), Num(0 - 12) >>
    /\ ser.text = << "(", "a", "t", " ", DQ, "1", "0", DQ, " ", "-", "1", "2", ")" >>

\* the serializer has just rendered a List in formatted mode
Formatted == ser.phase = "text" /\ ser.formatted

\* the List has an element that is a List
has_nested(v) == \E i \in 1..Len(v) : v[i].kind = "list"

RECURSIVE breaks(_)
breaks(e) ==
    IF e.kind # "list" \/ Len(e.value) = 0 THEN 0
    ELSE LET count[i \in 0..Len(e.value)] ==
                IF i = 0 THEN 0
                ELSE count[i - 1] + breaks(e.value[i])
                        + (IF i > 1 /\ e.value[i].kind = "list" THEN 1 ELSE 0)
         IN  count[Len(e.value)]

OverlayHasRect ==
    /\ display.overlay # NULL
    /\ \A shape \in {"line", "polygon"} :
            Prim(shape, from_corners(box_selection_start.x, box_selection_start.y,
                                     box_selection_end.x, box_selection_end.y), 0)
                \in Range(display.overlay.prims)

\* C26: every overlay repaint that runs while a box is being dragged leaves
\* the overlay's drawable holding the selection rectangle, whatever is
\* selected.
C26_RectangleRendered ==
    (last.op = "paint_selected" /\ is_box_selecting) => OverlayHasRect

\* C27: a move handled while a box is being dragged puts the live corner at
\* the pointer and schedules one overlay repaint, and the anchor corner is the
\* press position.
C27_MoveUpdatesLiveCorner ==
    (last.op = "mousemove" /\ last.selecting)
        => /\ box_selection_end = mouse_position
           /\ last.repaints = 1
           /\ box_selection_start = last.press
           /\ box_selection_start = mouse_down_position

\* C30: the loaded gate is one-shot.  It opens on a resolve_loaded(true) and
\* only then, never closes again, and resolve_loaded(false) neither opens it
\* nor dispatches the load event; once it is open every wait on it, issued
\* before or after, for the first time or again, completes.
C30_LoadedGateOneShot ==
    /\ [][/\ loaded.open => loaded'.open
          /\ (~loaded.open /\ loaded'.open)
                => (last'.op = "resolve_loaded" /\ last'.res = "true")
          /\ (last'.op = "resolve_loaded" /\ last'.res = "true"
                /\ loaded'.events # loaded.events) => loaded'.open
          /\ loaded'.events # loaded.events
                => (last'.op = "resolve_loaded" /\ last'.res = "true"
                        /\ loaded'.events = loaded.events + 1)
          /\ (last'.op = "resolve_loaded" /\ last'.res = "false")
                => (loaded'.open = loaded.open /\ loaded'.events = loaded.events)]_vars
    /\ \A w \in Waits :
            (loaded.waits[w] = "waiting" /\ loaded.open) ~> (loaded.waits[w] = "done")

\* the load was resolved twice and both callers were resumed
W_C30 ==
    /\ loaded.open
    /\ loaded.events = 2
    /\ \A w \in Waits : loaded.waits[w] = "done"

\* C31: the box-selection fields are consistent in every reachable state,
\* presses and releases alternating or not: the flag is true iff the anchor
\* corner is set iff the live corner is set, and a set anchor corner is the
\* press position.
C31_BoxStateConsistent ==
    /\ is_box_selecting <=> box_selection_start # NULL
    /\ box_selection_start # NULL <=> box_selection_end # NULL
    /\ box_selection_start # NULL
            => (mouse_down_position # NULL /\ box_selection_start = mouse_down_position)

\* C32: the three selection fields agree in every reachable state: the set is
\* empty iff the combined box is null iff the legacy selection is null.
C32_SelectionFieldsAgree ==
    /\ Len(selected_items) = 0 <=> selection_bbox = NULL
    /\ selection_bbox = NULL <=> selected = NULL

\* C33: a release handled after an unmodified press resolves as a click
\* selection or as a box selection, whatever moves were delivered in between.
C33_ReleaseResolves ==
    (Released /\ last.gesture.pressed = "plain") => last.res \in {"click", "box"}

\* what on_copy collects from the selection as it was at the request
Requested == collect(document, last.before, Collected(<< >>, << >>, << >>, << >>))

\* C34: the text handed to the clipboard is built from the selection set as
\* it was when the copy was requested, whatever happened to the selection
\* while the copy was suspended; the copy gives up only if that set had
\* nothing to export.
C34_CopiesSelectionAtRequest ==
    /\ Assembled
            => last.out.text = clipboard_text(Requested.lib_symbols, Requested.schematic_items)
    /\ (last.op = "copy" /\ last.res = "nothing") => nothing_collected(Requested)

\* the outlines the overlay holds for node n
HighlightsOf(n) ==
    {k \in 1..Len(display.overlay.prims) :
        /\ display.overlay.prims[k].shape = "line"
        /\ display.overlay.prims[k].grow > 0
        /\ display.overlay.prims[k].bbox.context = n}

\* C35: after an overlay repaint with nodes selected, the overlay holds one
\* highlight for every selected node, however the node was selected.
C35_EverySelectedNodeHighlighted ==
    (last.op = "paint_selected" /\ Len(selected_items) > 0)
        => /\ display.overlay # NULL
           /\ \A n \in Range(selected_items) : Cardinality(HighlightsOf(n)) = 1

\* the rectangles the overlay holds
OverlayRects ==
    IF display.overlay = NULL THEN {}
    ELSE {display.overlay.prims[k].bbox :
            k \in {j \in 1..Len(display.overlay.prims) : display.overlay.prims[j].grow = 0}}

RECURSIVE strings_of(_)
strings_of(e) ==
    IF e.kind = "string" THEN {e.value}
    ELSE IF e.kind = "number" THEN {}
    ELSE UNION {strings_of(e.value[i]) : i \in 1..Len(e.value)}

\* C37: for every string s handed to the serializer, escape_string(s) has no
\* raw newline, carriage return or tab and no double quote that would close
\* the string, and read back between double quotes under the tokenizer's
\* escape rules it is exactly s, the closing quote being the one after it.
C37_EscapingInvertible ==
    \A s \in strings_of(ser.expr) :
        LET escaped == escape_string(s)
        IN  /\ Range(escaped) \cap {LF, CR, TAB} = {}
            /\ ~read_string(escaped, 1, << >>).ok
            /\ read_string(escaped \o << DQ >>, 1, << >>)
                    = [ok |-> TRUE, value |-> s, next |-> Len(escaped) + 2]

\* text occurs in the serializer's output
Emitted(text) ==
    \E i \in 1..Len(ser.text) :
        i + Len(text) - 1 <= Len(ser.text) /\ SubSeq(ser.text, i, i + Len(text) - 1) = text

\* the serializer has emitted, escaped, a string with a double quote, a
\* backslash and a newline and one that ends in a backslash
W_C37 ==
    /\ ser.phase = "text"
    /\ {<< DQ, BS, "n", LF >>, << "a", BS >>} \subseteq strings_of(ser.expr)
    /\ Emitted(<< DQ, BS, DQ, BS, BS, "n", BS, "n", DQ >>)
    /\ Emitted(<< DQ, "a", BS, BS, DQ >>)

\* C38: the formatted and the unformatted text of a List have the same
\* tokens in the same order, the same parentheses and the same atoms, each
\* quoted in both or in neither; they differ in whitespace between tokens
\* only.
C38_FormattedSameTokens ==
    ser.phase = "text"
        => /\ tokenize(ser.text, 1) = tokenize(list_to_string(ser.expr, ~ser.formatted), 1)
           /\ \A k \in 1..Len(tokenize(ser.text, 1)) : tokenize(ser.text, 1)[k].kind # "error"

\* a List with nested Lists and quoted strings rendered in formatted mode,
\* its text broken over lines where the unformatted text is not
W_C38 ==
    /\ Formatted
    /\ \E i \in 2..Len(ser.expr.value) : ser.expr.value[i].kind = "list"
    /\ \E s \in strings_of(ser.expr) : needs_quoting(s)
    /\ LF \in Range(ser.text)
    /\ ser.text # list_to_string(ser.expr, FALSE)

\* C39: dimming never makes a layer more opaque: the alpha a frame renders
\* a layer with is at most the layer's own opacity, which is the alpha it
\* gets while no layer is highlighted.
C39_DimmingNeverMoreOpaque ==
    Composed
        => \A i \in 1..Len(Shown) : \A k \in 1..Len(Renders) :
                Renders[k].layer = Shown[i].name => Renders[k].alpha <= Shown[i].opacity

====
